---- MODULE Spec2Model ----
(***************************************************************************)
(* Model of boneio.helper.gpio: the pin configurator (configure_pin), the  *)
(* input reader (setup_input, read_input), the edge detector (edge_detect) *)
(* and the GPIO input unit (GpioBaseClass), together with the driver and   *)
(* the event loop they talk to.  One behaviour follows the lifecycle of    *)
(* one physical pin.  Strings that the code indexes (pin identifiers) are  *)
(* sequences of one-character strings.                                     *)
(***************************************************************************)
EXTENDS Integers, Sequences, FiniteSets, TLC

VARIABLES
    thePin,       \* the pin header position this lifecycle is about
    loopRunning,  \* TRUE while an asyncio event loop is running
    mux,          \* the pin-mux mode config-pin has set for the pin, or "unset"
    dir,          \* driver direction of the pin: "none" or "IN"
    level,        \* raw electrical level of the pin as GPIO.input reports it
    regs,         \* the driver's edge-detection registrations
    unit,         \* the constructed GpioBaseClass object, or NoUnit
    ukwargs,      \* the keyword arguments the unit was constructed with
    queue,        \* tasks handed to the event loop, not yet run
    last,         \* the last operation: its calls, its exception, its result
    hist          \* qualifying transitions and deliveries since the last arming

vars == <<thePin, loopRunning, mux, dir, level, regs, unit, ukwargs, queue,
          last, hist>>

----------------------------------------------------------------------------
(* Bounds of the model.                                                    *)

MaxPinLen == 5
MaxTime == 3
MaxQueue == 1

----------------------------------------------------------------------------
(* Constants of the program and of the driver.                             *)

HIGH == 1
LOW == 0
GPIO_STR == "gpio"
GPIO_MODE == "mode"
DefaultBounce == 25
FALLING == "falling"
RISING == "rising"
BOTH == "both"
Never == -1

Chars == {"P", "0"}
Modes == {"gpio", "gpio_pu"}
Edges == {FALLING, RISING, BOTH}
Levels == {HIGH, LOW}
Callbacks == {"cbA", "cbB"}
BounceTimes == {0, 2}
ProcOutcomes == {"exit0", "nonzero", "timeout"}
SetupOutcomes == {"ok", "ValueError", "SystemError"}
ArmOutcomes == {"ok", "RuntimeError"}
TickSteps == {1, 2}

Pins == { <<"P", "9", "_", "1">>, <<"P", "9", "_", "1", "2">> }

SeqsOfLen(n) == [1..n -> Chars]
PinStrings == UNION { SeqsOfLen(n) : n \in 0..MaxPinLen }

NoUnit == [pin |-> <<>>, bounce_time |-> Never, loop |-> "none",
           press_callback |-> "none"]
NoKwargs == [x \in {} |-> 0]
NoCalls == <<>>
Idle == [op |-> "init", calls |-> NoCalls, raised |-> "none", ret |-> FALSE,
         arg |-> LOW, invoked |-> {}, direct |-> {}, ctx |-> "none",
         proc |-> "none", drv |-> "none", pin |-> <<>>, kw |-> NoKwargs,
         old |-> {}]
NoHist == [n |-> 0, dt |-> 0, fired |-> 0, b |-> 0]

Min(a, b) == IF a < b THEN a ELSE b

----------------------------------------------------------------------------
(* The functions of gpio.py.  An operator takes the function's arguments   *)
(* and the outcome of the external call it makes, and yields the call and  *)
(* the exception raised ("none" when it returns).                          *)

(* Variant: the separator goes after the last character.                   *)
configure_pin_name_shift(pin) ==
    IF Len(pin) = 4
      THEN SubSeq(pin, 1, 4) \o <<"0">>
      ELSE pin

configure_pin_name(pin) ==
    IF Len(pin) = 4
      THEN SubSeq(pin, 1, 3) \o <<"0">> \o <<pin[4]>>
      ELSE pin

configure_pin(pin, mode, proc) ==
    [call |-> [fn |-> "config-pin", pin |-> configure_pin_name(pin),
               arg |-> mode],
     raised |-> IF proc = "timeout" THEN "TimeoutExpired" ELSE "none"]

(* Variant: the driver's error is caught and dropped.                      *)
setup_input_swallow(pin, pull_mode, drv) ==
    [call |-> [fn |-> "GPIO.setup", pin |-> pin,
               arg |-> IF pull_mode = "DOWN" THEN "PUD_DOWN" ELSE "PUD_UP"],
     raised |-> "none"]

setup_input(pin, pull_mode, drv) ==
    [call |-> [fn |-> "GPIO.setup", pin |-> pin,
               arg |-> IF pull_mode = "DOWN" THEN "PUD_DOWN" ELSE "PUD_UP"],
     raised |-> IF drv \in {"ValueError", "SystemError"}
                  THEN "GPIOInputException"
                  ELSE "none"]

(* Variant: the active level argument is ignored.                          *)
read_input_low(raw, on_state) == raw = LOW

read_input(raw, on_state) == raw = on_state

(* Variant: the bounce window is not passed to the driver.                 *)
edge_detect_nobounce(pin, callback, bounce, edge, drv) ==
    [call |-> [gpio |-> pin, edge |-> edge, callback |-> callback,
               bouncetime |-> 0],
     raised |-> IF drv = "RuntimeError" THEN "GPIOInputException" ELSE "none"]

(* Variant: the driver's RuntimeError is caught and dropped.               *)
edge_detect_swallow(pin, callback, bounce, edge, drv) ==
    [call |-> [gpio |-> pin, edge |-> edge, callback |-> callback,
               bouncetime |-> bounce],
     raised |-> "none"]

edge_detect(pin, callback, bounce, edge, drv) ==
    [call |-> [gpio |-> pin, edge |-> edge, callback |-> callback,
               bouncetime |-> bounce],
     raised |-> IF drv = "RuntimeError" THEN "GPIOInputException" ELSE "none"]

(* kwargs.get("rest_pin", {GPIO_MODE: GPIO_STR}) and the two lookups in it. *)
rest_pin(kwargs) ==
    IF "rest_pin" \in DOMAIN kwargs
      THEN kwargs["rest_pin"]
      ELSE [x \in {GPIO_MODE} |-> GPIO_STR]

bounce_time(kwargs) ==
    IF "bounce_time" \in DOMAIN rest_pin(kwargs)
      THEN rest_pin(kwargs)["bounce_time"]
      ELSE DefaultBounce

pin_mode(kwargs) ==
    IF GPIO_MODE \in DOMAIN rest_pin(kwargs)
      THEN rest_pin(kwargs)[GPIO_MODE]
      ELSE GPIO_STR

(* Variant: GPIO.setup is called before config-pin.                        *)
GpioBaseClass_init_setup_first(pin, press_callback, kwargs, proc, running, drv) ==
    LET cfg == configure_pin(pin, pin_mode(kwargs), proc)
        inp == setup_input(pin, "UP", drv)
    IN  IF inp.raised # "none"
          THEN [calls |-> <<inp.call>>, raised |-> inp.raised, self |-> NoUnit]
        ELSE IF cfg.raised # "none"
          THEN [calls |-> <<inp.call, cfg.call>>, raised |-> cfg.raised,
                self |-> NoUnit]
        ELSE IF ~running
          THEN [calls |-> <<inp.call, cfg.call>>, raised |-> "RuntimeError",
                self |-> NoUnit]
        ELSE [calls |-> <<inp.call, cfg.call>>, raised |-> "none",
              self |-> [pin |-> pin, bounce_time |-> bounce_time(kwargs),
                        loop |-> "loop", press_callback |-> press_callback]]

(* Variant: the running loop is looked up before config-pin is called.     *)
GpioBaseClass_init_loop_first(pin, press_callback, kwargs, proc, running, drv) ==
    LET cfg == configure_pin(pin, pin_mode(kwargs), proc)
        inp == setup_input(pin, "UP", drv)
    IN  IF ~running
          THEN [calls |-> <<>>, raised |-> "RuntimeError", self |-> NoUnit]
        ELSE IF cfg.raised # "none"
          THEN [calls |-> <<cfg.call>>, raised |-> cfg.raised, self |-> NoUnit]
        ELSE IF inp.raised # "none"
          THEN [calls |-> <<cfg.call, inp.call>>, raised |-> inp.raised,
                self |-> NoUnit]
        ELSE [calls |-> <<cfg.call, inp.call>>, raised |-> "none",
              self |-> [pin |-> pin, bounce_time |-> bounce_time(kwargs),
                        loop |-> "loop", press_callback |-> press_callback]]

GpioBaseClass_init(pin, press_callback, kwargs, proc, running, drv) ==
    LET cfg == configure_pin(pin, pin_mode(kwargs), proc)
        inp == setup_input(pin, "UP", drv)
    IN  IF cfg.raised # "none"
          THEN [calls |-> <<cfg.call>>, raised |-> cfg.raised, self |-> NoUnit]
        ELSE IF ~running
          THEN [calls |-> <<cfg.call>>, raised |-> "RuntimeError",
                self |-> NoUnit]
        ELSE IF inp.raised # "none"
          THEN [calls |-> <<cfg.call, inp.call>>, raised |-> inp.raised,
                self |-> NoUnit]
        ELSE [calls |-> <<cfg.call, inp.call>>, raised |-> "none",
              self |-> [pin |-> pin, bounce_time |-> bounce_time(kwargs),
                        loop |-> "loop", press_callback |-> press_callback]]

(* Variant: the unit reads against HIGH.                                   *)
is_pressed_high(self, raw) == read_input(raw, HIGH)

is_pressed(self, raw) == read_input(raw, LOW)

----------------------------------------------------------------------------
(* The subclass glue of an input unit: it arms edge detection with its own *)
(* handler and bounce time, and the handler hands the press callback to    *)
(* the event loop (loop.call_soon_threadsafe).                             *)

(* Variant: the handler runs the press callback itself.                    *)
handle_edge_direct(self, q) ==
    [queue |-> q, direct |-> {self.press_callback}]

handle_edge(self, q) ==
    [queue |-> Append(q, self.press_callback), direct |-> {}]

arm_args(self, edge) ==
    [pin |-> self.pin, callback |-> self, bounce |-> self.bounce_time,
     edge |-> edge]

----------------------------------------------------------------------------
(* The driver: bounce suppression and delivery of an edge.                 *)

Qualifies(r, kind) == r.edge = kind \/ r.edge = BOTH

Accepts(r) == r.since = Never \/ r.since >= r.bouncetime

RECURSIVE Deliver(_, _)
Deliver(S, acc) ==
    IF S = {}
      THEN acc
      ELSE LET r == CHOOSE x \in S : TRUE
               h == handle_edge(r.callback, acc.queue)
           IN  Deliver(S \ {r}, [queue |-> h.queue,
                                 direct |-> acc.direct \cup h.direct])

AddEventDetect(rs, call, drv) ==
    IF drv = "ok"
      THEN {r \in rs : r.gpio # call.gpio}
             \cup {[gpio |-> call.gpio, edge |-> call.edge,
                    callback |-> call.callback,
                    bouncetime |-> call.bouncetime, since |-> Never]}
      ELSE rs

----------------------------------------------------------------------------
(* Inputs.                                                                 *)

RestPins ==
    {NoKwargs}
      \cup {[mode |-> m] : m \in Modes}
      \cup {[bounce_time |-> b] : b \in BounceTimes}
      \cup {[mode |-> m, bounce_time |-> b] : m \in Modes, b \in BounceTimes}

BuildKwargs == {NoKwargs} \cup {[rest_pin |-> r] : r \in RestPins}
PollKwargs == {NoKwargs} \cup {[active_level |-> a] : a \in Levels}
EdgeKwargs == {[rest_pin |-> [bounce_time |-> b]] : b \in BounceTimes}

----------------------------------------------------------------------------
(* Initial state and actions.                                              *)

Init ==
    /\ thePin \in Pins
    /\ loopRunning = FALSE
    /\ mux = "unset"
    /\ dir = "none"
    /\ level = HIGH
    /\ regs = {}
    /\ unit = NoUnit
    /\ ukwargs = NoKwargs
    /\ queue = <<>>
    /\ last = Idle
    /\ hist = NoHist

StartLoop ==
    /\ ~loopRunning
    /\ loopRunning' = TRUE
    /\ last' = [Idle EXCEPT !.op = "start_loop"]
    /\ UNCHANGED <<thePin, mux, dir, level, regs, unit, ukwargs, queue, hist>>

StopLoop ==
    /\ loopRunning
    /\ loopRunning' = FALSE
    /\ last' = [Idle EXCEPT !.op = "stop_loop"]
    /\ UNCHANGED <<thePin, mux, dir, level, regs, unit, ukwargs, queue, hist>>

ConfigurePin(pin, mode, proc) ==
    LET c == configure_pin(pin, mode, proc)
    IN  /\ mux' = IF proc = "exit0" /\ c.call.pin = configure_pin_name(thePin)
                     THEN c.call.arg
                     ELSE mux
        /\ last' = [Idle EXCEPT !.op = "configure_pin", !.calls = <<c.call>>,
                                !.raised = c.raised, !.proc = proc,
                                !.pin = pin]
        /\ UNCHANGED <<thePin, loopRunning, dir, level, regs, unit, ukwargs,
                       queue, hist>>

Construct(press_callback, kwargs, proc, drv) ==
    LET r == GpioBaseClass_init(thePin, press_callback, kwargs, proc,
                                loopRunning, drv)
        cfgs == {i \in DOMAIN r.calls : r.calls[i].fn = "config-pin"}
        sets == {i \in DOMAIN r.calls : r.calls[i].fn = "GPIO.setup"}
    IN  /\ mux' = IF proc = "exit0" /\ cfgs # {}
                     THEN r.calls[CHOOSE i \in cfgs : TRUE].arg
                     ELSE mux
        /\ dir' = IF sets # {} /\ drv = "ok" THEN "IN" ELSE dir
        /\ unit' = IF r.raised = "none" THEN r.self ELSE unit
        /\ ukwargs' = IF r.raised = "none" THEN kwargs ELSE ukwargs
        /\ last' = [Idle EXCEPT !.op = "construct", !.calls = r.calls,
                                !.raised = r.raised,
                                !.ret = (r.self # NoUnit), !.proc = proc,
                                !.drv = IF sets # {} THEN drv ELSE "none",
                                !.pin = thePin, !.kw = kwargs]
        /\ UNCHANGED <<thePin, loopRunning, level, regs, queue, hist>>

Arm(edge, drv) ==
    /\ unit # NoUnit
    /\ LET a == arm_args(unit, edge)
           e == edge_detect(a.pin, a.callback, a.bounce, a.edge, drv)
       IN  /\ regs' = AddEventDetect(regs, e.call, drv)
           /\ hist' = IF drv = "ok"
                        THEN [NoHist EXCEPT !.b = unit.bounce_time]
                        ELSE hist
           /\ last' = [Idle EXCEPT !.op = "edge_detect", !.raised = e.raised,
                                   !.drv = drv,
                                   !.old = {r.callback : r \in regs}]
    /\ UNCHANGED <<thePin, loopRunning, mux, dir, level, unit, ukwargs, queue>>

Toggle ==
    LET kind == IF level = HIGH THEN FALLING ELSE RISING
        Q == {r \in regs : Qualifies(r, kind)}
        A == {r \in Q : Accepts(r)}
        d == Deliver(A, [queue |-> queue, direct |-> {}])
    IN  /\ Len(queue) + Cardinality(A) <= MaxQueue
        /\ level' = IF level = HIGH THEN LOW ELSE HIGH
        /\ regs' = {IF r \in A THEN [r EXCEPT !.since = 0] ELSE r : r \in regs}
        /\ queue' = d.queue
        /\ hist' = IF Q = {} \/ hist.n >= 2
                     THEN hist
                     ELSE [hist EXCEPT !.n = @ + 1,
                                       !.fired = @ + Cardinality(A)]
        /\ last' = [Idle EXCEPT !.op = "edge",
                                !.invoked = {r.callback : r \in A},
                                !.direct = d.direct, !.ctx = "driver"]
        /\ UNCHANGED <<thePin, loopRunning, mux, dir, unit, ukwargs>>

Tick(d) ==
    /\ regs # {}
    /\ regs' = {IF r.since = Never THEN r
                ELSE [r EXCEPT !.since = Min(@ + d, MaxTime)] : r \in regs}
    /\ hist' = IF hist.n = 1
                 THEN [hist EXCEPT !.dt = Min(@ + d, MaxTime)]
                 ELSE hist
    /\ last' = [Idle EXCEPT !.op = "tick"]
    /\ UNCHANGED <<thePin, loopRunning, mux, dir, level, unit, ukwargs, queue>>

RunLoop ==
    /\ loopRunning
    /\ queue # <<>>
    /\ queue' = Tail(queue)
    /\ last' = [Idle EXCEPT !.op = "press_callback",
                            !.invoked = {Head(queue)}, !.ctx = "loop"]
    /\ UNCHANGED <<thePin, loopRunning, mux, dir, level, regs, unit, ukwargs,
                   hist>>

IsPressed ==
    /\ unit # NoUnit
    /\ last' = [Idle EXCEPT !.op = "is_pressed",
                            !.ret = is_pressed(unit, level)]
    /\ UNCHANGED <<thePin, loopRunning, mux, dir, level, regs, unit, ukwargs,
                   queue, hist>>

ReadInput(on_state) ==
    /\ dir = "IN"
    /\ last' = [Idle EXCEPT !.op = "read_input", !.arg = on_state,
                            !.ret = read_input(level, on_state)]
    /\ UNCHANGED <<thePin, loopRunning, mux, dir, level, regs, unit, ukwargs,
                   queue, hist>>

----------------------------------------------------------------------------
(* Construction and arming under every outcome of the external calls.      *)

Next ==
    \/ StartLoop
    \/ StopLoop
    \/ \E kw \in BuildKwargs, proc \in ProcOutcomes, drv \in SetupOutcomes :
          Construct("cbA", kw, proc, drv)
    \/ \E drv \in ArmOutcomes : Arm(FALLING, drv)

Spec == Init /\ [][Next]_vars

(* Polling a constructed unit, armed or not, while the level changes.      *)

NextPoll ==
    \/ StartLoop
    \/ \E kw \in PollKwargs : Construct("cbA", kw, "exit0", "ok")
    \/ \E edge \in Edges : Arm(edge, "ok")
    \/ Toggle
    \/ RunLoop
    \/ IsPressed
    \/ \E a \in Levels : ReadInput(a)

SpecPoll == Init /\ [][NextPoll]_vars

(* Edges on an armed pin, over time.                                       *)

NextEdge ==
    \/ StartLoop
    \/ \E cb \in Callbacks, kw \in EdgeKwargs : Construct(cb, kw, "exit0", "ok")
    \/ \E edge \in Edges, drv \in ArmOutcomes : Arm(edge, drv)
    \/ Toggle
    \/ \E d \in TickSteps : Tick(d)
    \/ RunLoop

SpecEdge == Init /\ [][NextEdge]_vars

(* configure_pin on every pin identifier up to MaxPinLen characters.       *)

NextNorm ==
    \E pin \in PinStrings, mode \in Modes, proc \in ProcOutcomes :
        ConfigurePin(pin, mode, proc)

SpecNorm == Init /\ [][NextNorm]_vars

----------------------------------------------------------------------------
(* Properties.                                                             *)

Separator == "0"
ConfigErrors == {"TimeoutExpired", "CalledProcessError"}
Callbacks_of(rs) == {r.callback : r \in rs}

ExpectedMode(kw) ==
    IF "rest_pin" \in DOMAIN kw
      THEN IF "mode" \in DOMAIN kw["rest_pin"]
             THEN kw["rest_pin"]["mode"]
             ELSE "gpio"
      ELSE "gpio"

ExpectedBounce(kw) ==
    IF "rest_pin" \in DOMAIN kw
      THEN IF "bounce_time" \in DOMAIN kw["rest_pin"]
             THEN kw["rest_pin"]["bounce_time"]
             ELSE 25
      ELSE 25

ActiveLevel(kw) ==
    IF "active_level" \in DOMAIN kw THEN kw["active_level"] ELSE LOW

(* C1: of two qualifying transitions on the armed pin, separated by dt,    *)
(* the second is suppressed when dt is less than the unit's bounce window  *)
(* (one callback invocation) and delivered when dt is at least the window  *)
(* (two invocations).                                                      *)
C1_Debounce ==
    hist.n = 2 =>
        /\ hist.dt < hist.b => hist.fired = 1
        /\ hist.dt >= hist.b => hist.fired = 2

C1_Witness ==
    /\ hist.n = 2
    /\ hist.b = 2
    /\ hist.dt = 1
    /\ hist.fired = 1

(* C2: when GPIO.setup fails in the constructor, GPIOInputException is     *)
(* raised to the caller, no unit is returned, the edge registrations are   *)
(* left as they were, and every unit that exists had its pin set up as an  *)
(* input.                                                                  *)
C2_AtomicConstruction ==
    /\ [](unit # NoUnit => dir = "IN")
    /\ [][(last'.op = "construct"
             /\ last'.drv \in {"ValueError", "SystemError"})
            => /\ last'.raised = "GPIOInputException"
               /\ ~last'.ret
               /\ unit' = unit
               /\ regs' = regs]_vars

C2_Witness ==
    /\ last.op = "construct"
    /\ last.drv = "ValueError"
    /\ last.raised = "GPIOInputException"
    /\ unit = NoUnit

(* C3: a failed external configuration call, by exit status or by timeout, *)
(* makes the constructor raise a configuration error without calling       *)
(* GPIO.setup (stated for a constructor called with the event loop         *)
(* running, where nothing else can make it fail first).                    *)
C3_ConfigFailureSurfaced ==
    (last.op = "construct" /\ loopRunning
       /\ last.proc \in {"nonzero", "timeout"})
        => /\ last.raised \in ConfigErrors
           /\ Len(last.calls) = 1
           /\ ~last.ret

(* C4: a pin has at most one registration; arming an armed pin replaces    *)
(* the callback and the bounce window without an error; an edge invokes    *)
(* only the callback registered now.                                       *)
C4_RearmAlwaysReplaces ==
    /\ [](Cardinality({r \in regs : r.gpio = thePin}) <= 1)
    /\ [](last.op = "edge" => last.invoked \subseteq Callbacks_of(regs))
    /\ [][(last'.op = "edge_detect" /\ regs # {})
            => /\ last'.raised = "none"
               /\ Callbacks_of(regs') = {unit}
               /\ \A r \in regs' : r.bouncetime = unit.bounce_time]_vars

(* C4, amended: a pin has at most one registration; arming either returns  *)
(* and leaves exactly the new callback and bounce window registered, or    *)
(* raises GPIOInputException and leaves the registrations as they were; an *)
(* edge invokes only the callback registered now.                          *)
C4_RearmReplacesOrFails ==
    /\ [](Cardinality({r \in regs : r.gpio = thePin}) <= 1)
    /\ [](last.op = "edge" => last.invoked \subseteq Callbacks_of(regs))
    /\ [][last'.op = "edge_detect"
            => \/ /\ last'.raised = "none"
                  /\ Callbacks_of(regs') = {unit}
                  /\ \A r \in regs' : /\ r.bouncetime = unit.bounce_time
                                      /\ r.since = Never
                                      /\ r.gpio = thePin
               \/ /\ last'.raised = "GPIOInputException"
                  /\ regs' = regs]_vars

C4_Witness ==
    /\ last.op = "edge_detect"
    /\ last.raised = "none"
    /\ last.old # {}
    /\ unit \notin last.old
    /\ Callbacks_of(regs) = {unit}

(* C5: configure_pin passes a 4-character identifier on as its first three *)
(* characters, the separator and its last character, and any other         *)
(* identifier unchanged.                                                   *)
C5_Normalization ==
    last.op = "configure_pin" =>
        LET p == last.pin
            q == last.calls[1].pin
        IN  IF Len(p) = 4
              THEN /\ Len(q) = 5
                   /\ \A i \in 1..3 : q[i] = p[i]
                   /\ q[4] = Separator
                   /\ q[5] = p[4]
              ELSE q = p

C5_Witness ==
    /\ last.op = "configure_pin"
    /\ last.pin = <<"P", "0", "P", "P">>
    /\ last.calls[1].pin = <<"P", "0", "P", "0", "P">>

(* C6: read_input returns true exactly when the raw level equals the       *)
(* active level it was given.                                              *)
C6_ReadInput ==
    last.op = "read_input" => (last.ret <=> level = last.arg)

C6_Witness ==
    /\ last.op = "read_input"
    /\ last.arg = HIGH
    /\ level = LOW
    /\ ~last.ret

(* C7: is_pressed returns true exactly when the raw level equals the       *)
(* active level the unit was configured with.                              *)
C7_IsPressedConfiguredLevel ==
    last.op = "is_pressed" => (last.ret <=> level = ActiveLevel(ukwargs))

(* C7, amended: is_pressed returns true exactly when the raw level is LOW, *)
(* whatever active level the configuration asked for, armed or not.        *)
C7_IsPressedLow ==
    last.op = "is_pressed" => (last.ret <=> level = LOW)

C7_Witness ==
    /\ last.op = "is_pressed"
    /\ ActiveLevel(ukwargs) = HIGH
    /\ regs # {}
    /\ level = LOW
    /\ last.ret

C9_ConstructionOrder ==
    /\ [](last.op = "construct" =>
            /\ Len(last.calls) \in {1, 2}
            /\ last.calls[1].fn = "config-pin"
            /\ last.calls[1].arg = ExpectedMode(last.kw)
            /\ Len(last.calls) = 2 =>
                 /\ last.calls[2].fn = "GPIO.setup"
                 /\ last.calls[2].pin = last.pin
            /\ last.ret => /\ Len(last.calls) = 2
                           /\ unit.bounce_time = ExpectedBounce(last.kw))
    /\ [][last'.op = "construct" => regs' = regs]_vars

C9_Witness ==
    /\ last.op = "construct"
    /\ last.ret
    /\ last.kw = NoKwargs
    /\ unit.bounce_time = 25
    /\ last.calls[1].arg = "gpio"
    /\ regs = {}

====
